---------------------------- MODULE Spec2Model ----------------------------
(***************************************************************************)
(* A model of the decorators of decorators.py that carry state or control  *)
(* flow: retry, limit_run, timeout, pass_except, timing / Timing and       *)
(* reduce_query.  Every decorator is a small state machine of its own; a   *)
(* specification per decorator exercises it while the others stay idle.    *)
(***************************************************************************)
EXTENDS Integers, Sequences, FiniteSets, TLC

VARIABLES
    r_n,            \* retry: the configured n
    r_exception,    \* retry: the configured exception class
    r_pc,           \* retry: position of the outer call (idle, loop, done)
    r_i,            \* retry: iterations of `for _ in range(n)` already consumed
    r_invs,         \* retry: invocations of the target in the current outer call
    r_hist,         \* retry: outcomes of those invocations, in order
    r_result,       \* retry: what the outer call gave its caller
    r_calls,        \* retry: outer calls started so far
    r_prev,         \* retry: what the outer call before the current one gave
    l_n,            \* limit_run: the configured n (unset, or an integer)
    l_state,        \* limit_run: undecorated, or decorated (inner(func) has run)
    l_decorated,    \* limit_run: what decoration gave: the wrapper, or an error
    l_times_left,   \* limit_run: the closure cell times_left
    l_pc,           \* limit_run: each caller's position in wrapper
    l_invoked,      \* limit_run: invocations of the target so far
    l_log,          \* limit_run: what each finished call gave its caller, in order
    l_overlap,      \* limit_run: some call began while another was inside wrapper
    s_seconds,      \* timeout: the configured seconds of each timeout wrapper
    s_alarm,        \* timeout: seconds until the process's SIGALRM (0: none armed)
    s_handler,      \* timeout: the wrapper whose _handle_timeout is installed
    s_stack,        \* timeout: the outstanding wrapper calls, outermost first
    s_last,         \* timeout: the call that ended last, and how
    s_calls,        \* timeout: wrapper calls started so far
    s_clock,        \* timeout: seconds elapsed since the start
    s_stray,        \* timeout: an alarm went off with no wrapper call outstanding
    p_print,        \* pass_except: the configured print_exception
    p_log,          \* pass_except: each finished call: target outcome, result, trace
    g_variant,      \* timing: "timing" (the function) or "Timing" (the class)
    g_cfg,          \* timing: times, split_before, split_after, return_time, ...
    g_time_run,     \* timing: the nonlocal time_run of each wrapping (function)
    g_self_time_run,\* timing: self.time_run of the Timing instance
    g_pc,           \* timing: position of the call of wrap_func
    g_func,         \* timing: the wrapped function being called
    g_k,            \* timing: iterations of `for _ in range(times)` done
    g_invs,         \* timing: invocations of the target in the current call
    g_ret,          \* timing: the local ret (unbound before the first assignment)
    g_raised,       \* timing: the target raised during the current call
    g_out,          \* timing: the lines printed so far
    g_result,       \* timing: what the call gave its caller
    g_ms,           \* timing: the number returned when the result is a duration
    g_calls,        \* timing: calls started so far
    q_always,       \* reduce_query: the configured always_query
    q_today,        \* reduce_query: the current calendar day
    q_file,         \* reduce_query: the file at file_path (existence, text, mtime day)
    q_df,           \* reduce_query: the closure cell df
    q_df_date,      \* reduce_query: the closure cell df_date
    q_result,       \* reduce_query: what the last call gave its caller
    q_calls,        \* reduce_query: calls made so far
    q_calls_today,  \* reduce_query: calls made on the current day
    q_invs_today,   \* reduce_query: invocations of the target on the current day
    q_first_stale,  \* reduce_query: both tiers were stale at the day's first call
    q_first,        \* reduce_query: the day's first call: its arguments, its target
    q_seen          \* reduce_query: the last call: what it found, got and did

retryVars ==
    <<r_n, r_exception, r_pc, r_i, r_invs, r_hist, r_result, r_calls, r_prev>>

limitVars ==
    <<l_n, l_state, l_decorated, l_times_left, l_pc, l_invoked, l_log, l_overlap>>

timeoutVars ==
    <<s_seconds, s_alarm, s_handler, s_stack, s_last, s_calls, s_clock, s_stray>>

suppressVars == <<p_print, p_log>>

timingVars ==
    <<g_variant, g_cfg, g_time_run, g_self_time_run, g_pc, g_func, g_k, g_invs,
      g_ret, g_raised, g_out, g_result, g_ms, g_calls>>

queryVars ==
    <<q_always, q_today, q_file, q_df, q_df_date, q_result, q_calls,
      q_calls_today, q_invs_today, q_first_stale, q_first, q_seen>>

vars == <<retryVars, limitVars, timeoutVars, suppressVars, timingVars, queryVars>>

\* The variables of all decorators but one.
exceptRetry ==
    <<limitVars, timeoutVars, suppressVars, timingVars, queryVars>>

exceptLimit ==
    <<retryVars, timeoutVars, suppressVars, timingVars, queryVars>>

exceptTimeout ==
    <<retryVars, limitVars, suppressVars, timingVars, queryVars>>

exceptSuppress ==
    <<retryVars, limitVars, timeoutVars, timingVars, queryVars>>

exceptTiming ==
    <<retryVars, limitVars, timeoutVars, suppressVars, queryVars>>

exceptQuery ==
    <<retryVars, limitVars, timeoutVars, suppressVars, timingVars>>

--------------------------------------------------------------------------
(* Python values, exceptions and outcomes of a call                        *)

\* The value Python's None, and the values a target returns.
None == "None"

TargetValues == {"v1", "v2"}

\* The exception classes the model tells apart, with Python's hierarchy.
ExcClasses ==
    {"BaseException", "Exception", "KeyboardInterrupt", "ValueError",
     "KeyError", "RuntimeError", "NameError"}

ExcParent(c) ==
    CASE c = "Exception"         -> "BaseException"
      [] c = "KeyboardInterrupt" -> "BaseException"
      [] c = "ValueError"        -> "Exception"
      [] c = "KeyError"          -> "Exception"
      [] c = "RuntimeError"      -> "Exception"
      [] c = "NameError"         -> "Exception"
      [] OTHER                   -> "BaseException"

RECURSIVE IsSubclass(_, _)
IsSubclass(c, k) ==
    IF c = k THEN TRUE
    ELSE IF c = "BaseException" THEN FALSE
    ELSE IsSubclass(ExcParent(c), k)

\* What a call gives its caller: a returned value or a raised exception.
\* origin tells the target's own exception from one the wrapper raises.
NoResult == [kind |-> "none", val |-> None, cls |-> None, origin |-> None]

Returned(v) == [kind |-> "return", val |-> v, cls |-> None, origin |-> None]

Raised(c, o) == [kind |-> "raise", val |-> None, cls |-> c, origin |-> o]

\* What one invocation of a target can do: return a value or raise.
TargetRaises == {"ValueError", "KeyError", "KeyboardInterrupt"}

TargetOutcomes ==
    {Returned(v) : v \in TargetValues} \cup {Raised(c, "target") : c \in TargetRaises}

--------------------------------------------------------------------------
(* retry(n, exception)                                                     *)

MaxRetries == 3

MaxOuterCalls == 2

RetryKinds == {"Exception", "ValueError"}

\* What a bare `except:` would catch: everything.
RetryMatchesAll(cls, kind) == TRUE

\* `except exception:` catches the instances of the configured class.
RetryMatches(cls, kind) == IsSubclass(cls, kind)

\* What range(n + 1) would give: one iteration too many.
RangeLenOneMore(n) == n + 1

\* len(range(n)): the iterations of `for _ in range(n)`.
RangeLen(n) == IF n > 0 THEN n ELSE 0

RetryInit ==
    /\ r_n \in 0..MaxRetries
    /\ r_exception \in RetryKinds
    /\ r_pc = "idle"
    /\ r_i = 0
    /\ r_invs = 0
    /\ r_hist = <<>>
    /\ r_result = NoResult
    /\ r_calls = 0
    /\ r_prev = NoResult

\* What a wrapper that kept its attempt counter between calls would do: the
\* loop goes on from where the call before left it.
RetryCallCarrying ==
    /\ r_pc \in {"idle", "done"}
    /\ r_calls < MaxOuterCalls
    /\ r_pc' = "loop"
    /\ r_i' = r_i
    /\ r_invs' = 0
    /\ r_hist' = <<>>
    /\ r_result' = NoResult
    /\ r_calls' = r_calls + 1
    /\ r_prev' = r_result
    /\ UNCHANGED <<r_n, r_exception>>

\* The caller calls the wrapper: the loop starts from its first iteration.
RetryCall ==
    /\ r_pc \in {"idle", "done"}
    /\ r_calls < MaxOuterCalls
    /\ r_pc' = "loop"
    /\ r_i' = 0
    /\ r_invs' = 0
    /\ r_hist' = <<>>
    /\ r_result' = NoResult
    /\ r_calls' = r_calls + 1
    /\ r_prev' = r_result
    /\ UNCHANGED <<r_n, r_exception>>

\* One iteration: the target is invoked; its value is returned, a matching
\* exception is dropped and the loop goes on, any other exception propagates.
RetryAttempt ==
    /\ r_pc = "loop"
    /\ r_i < RangeLen(r_n)
    /\ \E out \in TargetOutcomes :
          /\ r_invs' = r_invs + 1
          /\ r_hist' = Append(r_hist, out)
          /\ IF out.kind = "return"
             THEN /\ r_result' = out
                  /\ r_pc' = "done"
                  /\ r_i' = r_i
             ELSE IF RetryMatches(out.cls, r_exception)
             THEN /\ r_result' = r_result
                  /\ r_pc' = "loop"
                  /\ r_i' = r_i + 1
             ELSE /\ r_result' = out
                  /\ r_pc' = "done"
                  /\ r_i' = r_i
    /\ UNCHANGED <<r_n, r_exception, r_calls, r_prev>>

\* The loop ran out: raise ValueError('... exceeds n retries').
RetryExhausted ==
    /\ r_pc = "loop"
    /\ r_i >= RangeLen(r_n)
    /\ r_result' = Raised("ValueError", "retry")
    /\ r_pc' = "done"
    /\ UNCHANGED <<r_n, r_exception, r_i, r_invs, r_hist, r_calls, r_prev>>

--------------------------------------------------------------------------
(* limit_run(n)                                                            *)

MaxLimit == 2

MaxLimitCalls == 4

Threads == {"t1", "t2"}

\* n is None (unset) or an integer; times_left starts as n.
Unset == [set |-> FALSE, val |-> 0]

IntVal(v) == [set |-> TRUE, val |-> v]

LimitConfigs == {Unset} \cup {IntVal(v) : v \in -1..MaxLimit}

LimitTargetOutcomes == {Returned("v1"), Raised("ValueError", "target")}

\* RuntimeError('... exceeds maximum run of n times')
QuotaExceeded == Raised("RuntimeError", "limit_run")

\* What the tests `times_left != 0` and `times_left >= 0` would give.
HasRunsLeftNonZero(left) == left.val # 0

HasRunsLeftOrZero(left) == left.val >= 0

\* The test `times_left > 0` of the elif.
HasRunsLeft(left) == left.val > 0

LimitInit ==
    /\ l_n \in LimitConfigs
    /\ l_state = "undecorated"
    /\ l_decorated = NoResult
    /\ l_times_left = Unset
    /\ l_pc = [t \in Threads |-> "idle"]
    /\ l_invoked = 0
    /\ l_log = <<>>
    /\ l_overlap = FALSE

\* limit_run(n)(func): inner sets times_left = n and returns the wrapper;
\* n is not examined.
LimitDecorate ==
    /\ l_state = "undecorated"
    /\ l_state' = "decorated"
    /\ l_times_left' = l_n
    /\ l_decorated' = Returned("wrapper")
    /\ UNCHANGED <<l_n, l_pc, l_invoked, l_log, l_overlap>>

\* A call enters wrapper: `if n is None` goes to the target, `elif
\* times_left > 0` goes on to the decrement, else RuntimeError is raised.
LimitTest(t) ==
    /\ l_state = "decorated"
    /\ l_pc[t] = "idle"
    /\ Len(l_log) + Cardinality({u \in Threads : l_pc[u] # "idle"}) < MaxLimitCalls
    /\ IF ~l_n.set
       THEN /\ l_pc' = [l_pc EXCEPT ![t] = "invoke"]
            /\ l_log' = l_log
       ELSE IF HasRunsLeft(l_times_left)
       THEN /\ l_pc' = [l_pc EXCEPT ![t] = "decrement"]
            /\ l_log' = l_log
       ELSE /\ l_pc' = l_pc
            /\ l_log' = Append(l_log, QuotaExceeded)
    /\ l_overlap' = (l_overlap \/ \E u \in Threads \ {t} : l_pc[u] # "idle")
    /\ UNCHANGED <<l_n, l_state, l_decorated, l_times_left, l_invoked>>

\* What the step would be if the count were left as it is.
LimitDecrementSkipped(t) ==
    /\ l_pc[t] = "decrement"
    /\ l_pc' = [l_pc EXCEPT ![t] = "invoke"]
    /\ UNCHANGED <<l_n, l_state, l_decorated, l_times_left, l_invoked, l_log,
                   l_overlap>>

\* times_left -= 1
LimitDecrement(t) ==
    /\ l_pc[t] = "decrement"
    /\ l_times_left' = IntVal(l_times_left.val - 1)
    /\ l_pc' = [l_pc EXCEPT ![t] = "invoke"]
    /\ UNCHANGED <<l_n, l_state, l_decorated, l_invoked, l_log, l_overlap>>

\* What the invocation would be if a target that raises gave its unit of
\* quota back.
LimitInvokeRefunding(t) ==
    /\ l_pc[t] = "invoke"
    /\ \E out \in LimitTargetOutcomes :
          /\ l_log' = Append(l_log, out)
          /\ l_times_left' = IF l_n.set /\ out.kind = "raise"
                              THEN IntVal(l_times_left.val + 1) ELSE l_times_left
    /\ l_invoked' = l_invoked + 1
    /\ l_pc' = [l_pc EXCEPT ![t] = "idle"]
    /\ UNCHANGED <<l_n, l_state, l_decorated, l_overlap>>

\* return func(*args, **kwargs): the target returns or raises, and so does
\* the wrapper.
LimitInvoke(t) ==
    /\ l_pc[t] = "invoke"
    /\ \E out \in LimitTargetOutcomes :
          l_log' = Append(l_log, out)
    /\ l_invoked' = l_invoked + 1
    /\ l_pc' = [l_pc EXCEPT ![t] = "idle"]
    /\ UNCHANGED <<l_n, l_state, l_decorated, l_times_left, l_overlap>>

\* Calls made one after another: a caller enters only when no other is inside.
LimitSerial(t) == \A u \in Threads \ {t} : l_pc[u] = "idle"

LimitSerialTest == \E t \in Threads : LimitSerial(t) /\ LimitTest(t)

LimitSerialDecrement == \E t \in Threads : LimitDecrement(t)

LimitSerialInvoke == \E t \in Threads : LimitInvoke(t)

--------------------------------------------------------------------------
(* timeout(seconds, error_message)                                         *)
(* The clock counts whole seconds, the unit of signal.alarm.  Seconds pass *)
(* while a target runs or between calls; the statements of wrapper itself  *)
(* take no time.                                                           *)

MaxSeconds == 2

MaxClock == 3

MaxDepth == 2

MaxTimeoutCalls == 3

\* Two functions decorated with timeout; error_message names the wrapper.
Wrappers == {"w1", "w2"}

TimeoutTargetOutcomes == {Returned("v1"), Raised("ValueError", "target")}

\* raise RuntimeError(error_message), by the handler of wrapper h.
TimedOut(h) == Raised("RuntimeError", h)

NoCall == [w |-> None, result |-> NoResult, elapsed |-> 0, depth |-> 0]

\* signal.alarm(seconds): the new alarm replaces any pending one.
SignalAlarm(pending, seconds) == seconds

\* What a wrapper without the finally clause would leave: the pending alarm.
FinallyAlarmKept(pending) == pending

\* finally: signal.alarm(0)
FinallyAlarm(pending) == SignalAlarm(pending, 0)

Pop(stack) == SubSeq(stack, 1, Len(stack) - 1)

Top(stack) == stack[Len(stack)]

\* One second passes for every outstanding call.
Aged(stack) == [i \in 1..Len(stack) |-> [stack[i] EXCEPT !.elapsed = @ + 1]]

Ended(frame, result, depth) ==
    [w |-> frame.w, result |-> result, elapsed |-> frame.elapsed, depth |-> depth]

TimeoutInit ==
    /\ s_seconds \in [Wrappers -> 0..MaxSeconds]
    /\ s_alarm = 0
    /\ s_handler = None
    /\ s_stack = <<>>
    /\ s_last = NoCall
    /\ s_calls = 0
    /\ s_clock = 0
    /\ s_stray = FALSE

\* wrapper is entered, by the program or by the target of the call that is
\* running: signal.signal(SIGALRM, _handle_timeout); signal.alarm(seconds);
\* then the target starts.
TimeoutCall(w) ==
    /\ Len(s_stack) < MaxDepth
    /\ s_calls < MaxTimeoutCalls
    /\ s_handler' = w
    /\ s_alarm' = SignalAlarm(s_alarm, s_seconds[w])
    /\ s_stack' = Append(s_stack, [w |-> w, elapsed |-> 0])
    /\ s_calls' = s_calls + 1
    /\ UNCHANGED <<s_seconds, s_last, s_clock, s_stray>>

\* The running target returns: finally signal.alarm(0); return result.
TimeoutTargetReturns ==
    /\ s_stack # <<>>
    /\ s_alarm' = FinallyAlarm(s_alarm)
    /\ s_last' = Ended(Top(s_stack), Returned("v1"), Len(s_stack))
    /\ s_stack' = Pop(s_stack)
    /\ UNCHANGED <<s_seconds, s_handler, s_calls, s_clock, s_stray>>

\* The running target raises: finally signal.alarm(0); the exception goes on.
TimeoutTargetRaises ==
    /\ s_stack # <<>>
    /\ s_alarm' = FinallyAlarm(s_alarm)
    /\ s_last' = Ended(Top(s_stack), Raised("ValueError", "target"), Len(s_stack))
    /\ s_stack' = Pop(s_stack)
    /\ UNCHANGED <<s_seconds, s_handler, s_calls, s_clock, s_stray>>

\* A second passes and no alarm goes off.
Tick ==
    /\ s_clock < MaxClock
    /\ s_alarm # 1
    /\ s_clock' = s_clock + 1
    /\ s_alarm' = IF s_alarm > 1 THEN s_alarm - 1 ELSE 0
    /\ s_stack' = Aged(s_stack)
    /\ UNCHANGED <<s_seconds, s_handler, s_last, s_calls, s_stray>>

\* A second passes and the alarm goes off: the installed handler raises
\* RuntimeError(error_message) in the running target, the finally of its
\* wrapper runs, and the call ends with that error.  With no call
\* outstanding the error lands in unrelated code.
TickAlarm ==
    /\ s_clock < MaxClock
    /\ s_alarm = 1
    /\ s_clock' = s_clock + 1
    /\ IF s_stack # <<>>
       THEN /\ s_alarm' = FinallyAlarm(0)
            /\ s_last' = Ended(Top(Aged(s_stack)), TimedOut(s_handler), Len(s_stack))
            /\ s_stack' = Pop(Aged(s_stack))
            /\ s_stray' = s_stray
       ELSE /\ s_alarm' = 0
            /\ s_stray' = TRUE
            /\ UNCHANGED <<s_stack, s_last>>
    /\ UNCHANGED <<s_seconds, s_handler, s_calls>>

--------------------------------------------------------------------------
(* pass_except(print_exception)                                            *)

MaxSuppressCalls == 3

\* What `except ValueError as e:` would catch.
PassExceptCatchesValueError(cls) == IsSubclass(cls, "ValueError")

\* `except Exception as e:` catches the instances of Exception.
PassExceptCatches(cls) == IsSubclass(cls, "Exception")

PassExceptInit ==
    /\ p_print \in BOOLEAN
    /\ p_log = <<>>

\* One call of wrapper: the target's value is returned; an exception the
\* except clause catches is dropped (its traceback printed when
\* print_exception is set) and the wrapper falls off its end, returning None;
\* any other exception propagates.
PassExceptCall ==
    /\ Len(p_log) < MaxSuppressCalls
    /\ \E out \in TargetOutcomes :
          p_log' = Append(p_log,
              IF out.kind = "return"
              THEN [out |-> out, result |-> out, traced |-> FALSE]
              ELSE IF PassExceptCatches(out.cls)
              THEN [out |-> out, result |-> Returned(None), traced |-> p_print]
              ELSE [out |-> out, result |-> out, traced |-> FALSE])
    /\ UNCHANGED p_print

--------------------------------------------------------------------------
(* timing(...) and Timing(...)                                             *)

MaxTimes == 2

MaxRunTime == 1

MaxTimingCalls == 2

\* Two functions: each wrapped by its own timing(...), or both by one Timing
\* instance.
Funcs == {"f", "g"}

Factors == {1, 1000}

TimingConfigs ==
    [times : 0..MaxTimes, split_before : BOOLEAN, split_after : BOOLEAN,
     return_time : BOOLEAN, activate : BOOLEAN, factor : Factors]

TimingTargetOutcomes ==
    {Returned("v1"), Returned("v2"), Raised("ValueError", "target")}

\* A local name that has not been assigned yet.
Unbound == "<unbound>"

\* The call returned run_time*factor; the number is kept in g_ms.
Measured == [kind |-> "time", val |-> None, cls |-> None, origin |-> None]

\* The names bound at module level: the imports and the definitions.
ModuleNames ==
    {"os", "time", "functools", "_repr_func", "chdir_back_and_forth", "timing",
     "Timing", "deprecated", "pass_except", "repeat", "slow_down", "retry",
     "limit_run", "timeout", "memorize", "reduce_query", "override_args",
     "force_input_arg", "accepts", "returns", "info", "wip_warning",
     "protected_symbol"}

\* The builtins the decorators use.
Builtins ==
    {"print", "range", "str", "min", "len", "list", "tuple", "map", "type",
     "isinstance", "Exception", "ValueError", "RuntimeError", "TypeError",
     "KeyError", "DeprecationWarning", "FileNotFoundError"}

\* The locals and free variables of timing.decor_timing.wrap_func.
TimingWrapScope ==
    {"args", "kwargs", "time_run", "time1", "time2", "ret", "run_time", "ti",
     "_", "func", "activate", "return_time", "factor", "split_before",
     "split_after", "times"}

\* The locals and free variables of Timing.__call__.wrap_func.
TimingClassWrapScope ==
    {"args", "kwargs", "time1", "time2", "ret", "run_time", "ti", "_", "self",
     "func"}

\* Whether a name read in a function resolves: locals and closure, then the
\* module's globals, then the builtins; otherwise NameError.
NameResolves(name, scope) == name \in scope \cup ModuleNames \cup Builtins

\* print(f"{' '+str(time_run)+' ':#^54}") and the 'Runtime of ...' line.
Separator(n, f) == [kind |-> "sep", n |-> n, f |-> f]

ReportLine(f) == [kind |-> "line", n |-> 0, f |-> f]

\* What `time_run += 1` would be if it left the counter alone.
TimeRunKept(n) == n

\* time_run += 1 (self.time_run += 1), after a separator is printed.
TimeRunIncrement(n) == n + 1

\* if return_time: return run_time*factor, else: return ret
TimingReturn(cfg, ret) ==
    IF cfg.return_time THEN Measured
    ELSE IF ret = Unbound THEN Raised("UnboundLocalError", "wrap_func")
    ELSE Returned(ret)

TimingInit ==
    /\ g_variant \in {"timing", "Timing"}
    /\ g_cfg \in TimingConfigs
    /\ g_time_run = [f \in Funcs |-> 0]
    /\ g_self_time_run = 0
    /\ g_pc = "idle"
    /\ g_func = None
    /\ g_k = 0
    /\ g_invs = 0
    /\ g_ret = Unbound
    /\ g_raised = FALSE
    /\ g_out = <<>>
    /\ g_result = NoResult
    /\ g_ms = 0
    /\ g_calls = 0

\* activate=False: the decorator returned func itself, so a call is one call
\* of the target and nothing else.
TimingCallInactive(f) ==
    /\ ~g_cfg.activate
    /\ g_pc \in {"idle", "done"}
    /\ g_calls < MaxTimingCalls
    /\ \E out \in TimingTargetOutcomes :
          /\ g_result' = out
          /\ g_raised' = (out.kind = "raise")
          /\ g_ret' = IF out.kind = "return" THEN out.val ELSE Unbound
    /\ g_pc' = "done"
    /\ g_func' = f
    /\ g_k' = 0
    /\ g_invs' = 1
    /\ g_ms' = 0
    /\ g_calls' = g_calls + 1
    /\ UNCHANGED <<g_variant, g_cfg, g_time_run, g_self_time_run, g_out>>

\* wrap_func is entered: time1 is taken and the loop starts.
TimingCall(f) ==
    /\ g_cfg.activate
    /\ g_pc \in {"idle", "done"}
    /\ g_calls < MaxTimingCalls
    /\ g_pc' = "loop"
    /\ g_func' = f
    /\ g_k' = 0
    /\ g_invs' = 0
    /\ g_ret' = Unbound
    /\ g_raised' = FALSE
    /\ g_result' = NoResult
    /\ g_ms' = 0
    /\ g_calls' = g_calls + 1
    /\ UNCHANGED <<g_variant, g_cfg, g_time_run, g_self_time_run, g_out>>

\* ret = func(*args, **kwargs), once per iteration; an exception of the
\* target leaves wrap_func.
TimingInvoke ==
    /\ g_pc = "loop"
    /\ g_k < RangeLen(g_cfg.times)
    /\ \E out \in TimingTargetOutcomes :
          IF out.kind = "return"
          THEN /\ g_ret' = out.val
               /\ g_k' = g_k + 1
               /\ g_pc' = "loop"
               /\ UNCHANGED <<g_result, g_raised>>
          ELSE /\ g_result' = out
               /\ g_raised' = TRUE
               /\ g_pc' = "done"
               /\ UNCHANGED <<g_ret, g_k>>
    /\ g_invs' = g_invs + 1
    /\ UNCHANGED <<g_variant, g_cfg, g_time_run, g_self_time_run, g_func, g_out,
                   g_ms, g_calls>>

\* timing.decor_timing.wrap_func after the loop: the separators and the
\* report line are printed, time_run grows by one per separator, and the
\* duration or ret is returned.
TimingReport ==
    /\ g_variant = "timing"
    /\ g_pc = "loop"
    /\ g_k >= RangeLen(g_cfg.times)
    /\ LET n0 == g_time_run[g_func]
           n1 == IF g_cfg.split_before THEN TimeRunIncrement(n0) ELSE n0
           n2 == IF g_cfg.split_after THEN TimeRunIncrement(n1) ELSE n1
           before == IF g_cfg.split_before THEN <<Separator(n0, g_func)>> ELSE <<>>
           after == IF g_cfg.split_after THEN <<Separator(n1, g_func)>> ELSE <<>>
       IN  /\ g_out' = g_out \o before \o <<ReportLine(g_func)>> \o after
           /\ g_time_run' = [g_time_run EXCEPT ![g_func] = n2]
    /\ \E run_time \in 0..MaxRunTime :
          /\ g_result' = TimingReturn(g_cfg, g_ret)
          /\ g_ms' = IF g_cfg.return_time THEN run_time * g_cfg.factor ELSE 0
    /\ g_pc' = "done"
    /\ UNCHANGED <<g_variant, g_cfg, g_self_time_run, g_func, g_k, g_invs, g_ret,
                   g_raised, g_calls>>

\* Timing.__call__.wrap_func after the loop: the same, on self, except that
\* the line `ti = '' if times==1 else ...` reads the name times, which is
\* neither a local, nor a free variable, nor a global: NameError, after the
\* split_before separator and before anything else.
TimingClassReport ==
    /\ g_variant = "Timing"
    /\ g_pc = "loop"
    /\ g_k >= RangeLen(g_cfg.times)
    /\ LET n0 == g_self_time_run
           n1 == IF g_cfg.split_before THEN TimeRunIncrement(n0) ELSE n0
           n2 == IF g_cfg.split_after THEN TimeRunIncrement(n1) ELSE n1
           before == IF g_cfg.split_before THEN <<Separator(n0, g_func)>> ELSE <<>>
           after == IF g_cfg.split_after THEN <<Separator(n1, g_func)>> ELSE <<>>
       IN  IF NameResolves("times", TimingClassWrapScope)
           THEN /\ g_out' = g_out \o before \o <<ReportLine(g_func)>> \o after
                /\ g_self_time_run' = n2
                /\ \E run_time \in 0..MaxRunTime :
                      /\ g_result' = TimingReturn(g_cfg, g_ret)
                      /\ g_ms' = IF g_cfg.return_time
                                 THEN run_time * g_cfg.factor ELSE 0
           ELSE /\ g_out' = g_out \o before
                /\ g_self_time_run' = n1
                /\ g_result' = Raised("NameError", "wrap_func")
                /\ g_ms' = 0
    /\ g_pc' = "done"
    /\ UNCHANGED <<g_variant, g_cfg, g_time_run, g_func, g_k, g_invs, g_ret,
                   g_raised, g_calls>>

--------------------------------------------------------------------------
(* reduce_query(file_path, always_query)                                   *)

MaxDay == 3

MaxQueryCalls == 4

\* The value of file_date and df_date when they are None.
NoDate == -1

\* The results a target returns: a frame whose CSV text reads back as the
\* same frame, and one whose column types do not survive the round trip.
DataFrames == {"df_plain", "df_typed"}

\* df.to_csv(file_path, index=False): the text written.
ToCsv(df) ==
    CASE df = "df_plain" -> "csv_plain"
      [] df = "df_typed" -> "csv_typed"
      [] df = "df_typed_reread" -> "csv_typed"
      [] OTHER -> "csv_empty"

\* pd.read_csv(file_path): the frame read.
ReadCsv(csv) ==
    CASE csv = "csv_plain" -> "df_plain"
      [] csv = "csv_typed" -> "df_typed_reread"
      [] OTHER -> "df_empty"

NoFile == [exists |-> FALSE, content |-> None, date |-> NoDate]

FileOf(csv, day) == [exists |-> TRUE, content |-> csv, date |-> day]

QueryOutcomes ==
    {Returned(d) : d \in DataFrames} \cup {Raised("ValueError", "target")}

\* The arguments a call passes.
QueryArgs == {"a1", "a2"}

\* No call yet (today, or at all).
NoFirst == [arg |-> None, out |-> NoResult]

NoSeen ==
    [arg |-> None, out |-> NoResult, file_fresh |-> FALSE, mem_fresh |-> FALSE,
     invoked |-> FALSE, day |-> NoDate, file |-> NoFile, df |-> None,
     df_date |-> NoDate]

\* The locals and free variables of reduce_query.inner.wrapper.
ReduceWrapScope ==
    {"args", "kwargs", "file_path", "df", "df_date", "always_query", "func",
     "file_date", "is_file_up_to_date", "is_mem_up_to_date"}

\* os.path.getmtime(file_path) as a date; FileNotFoundError gives None.
FileDate(file) == IF file.exists THEN file.date ELSE NoDate

ReduceQueryInit ==
    /\ q_always \in BOOLEAN
    /\ q_today = 1
    /\ q_file \in {NoFile} \cup
                  {FileOf(c, d) : c \in {"csv_plain", "csv_typed"}, d \in 0..1}
    /\ q_df = None
    /\ q_df_date = NoDate
    /\ q_result = NoResult
    /\ q_calls = 0
    /\ q_calls_today = 0
    /\ q_invs_today = 0
    /\ q_first_stale = FALSE
    /\ q_first = NoFirst
    /\ q_seen = NoSeen

\* Midnight passes.
DayPasses ==
    /\ q_today < MaxDay
    /\ q_today' = q_today + 1
    /\ q_calls_today' = 0
    /\ q_invs_today' = 0
    /\ q_first_stale' = FALSE
    /\ q_first' = NoFirst
    /\ UNCHANGED <<q_always, q_file, q_df, q_df_date, q_result, q_calls, q_seen>>

\* The body of wrapper below `if always_query`, were its names to resolve:
\* the two freshness tests and the three branches.  out is what the target
\* does if it is invoked.
ReduceQueryBody(out) ==
    LET file_date == FileDate(q_file)
        is_file_up_to_date == file_date = q_today
        is_mem_up_to_date == q_df_date = q_today
    IN  IF is_mem_up_to_date
        THEN /\ q_file' = IF ~is_file_up_to_date
                          THEN FileOf(ToCsv(q_df), q_today) ELSE q_file
             /\ q_result' = Returned(q_df)
             /\ UNCHANGED <<q_df, q_df_date, q_invs_today>>
        ELSE IF is_file_up_to_date
        THEN IF NameResolves("pd", ReduceWrapScope)
             THEN /\ q_df' = ReadCsv(q_file.content)
                  /\ q_df_date' = file_date
                  /\ q_result' = Returned(ReadCsv(q_file.content))
                  /\ UNCHANGED <<q_file, q_invs_today>>
             ELSE /\ q_result' = Raised("NameError", "wrapper")
                  /\ UNCHANGED <<q_file, q_df, q_df_date, q_invs_today>>
        ELSE /\ q_invs_today' = q_invs_today + 1
             /\ IF out.kind = "return"
                THEN /\ q_df' = out.val
                     /\ q_file' = FileOf(ToCsv(out.val), q_today)
                     /\ q_df_date' = q_today
                     /\ q_result' = out
                ELSE /\ q_result' = out
                     /\ UNCHANGED <<q_file, q_df, q_df_date>>

\* What wrapper would do without its first test: the cache is consulted even
\* when always_query is set.
ReduceQueryWrapperNoBypass(out) ==
    IF ~NameResolves("datetime", ReduceWrapScope)
    THEN /\ q_result' = Raised("NameError", "wrapper")
         /\ UNCHANGED <<q_file, q_df, q_df_date, q_invs_today>>
    ELSE ReduceQueryBody(out)

\* wrapper.  With always_query the target is called and its outcome is the
\* wrapper's.  Otherwise the file's date is read and compared with
\* datetime.datetime.now().date(): the module never imports datetime (nor
\* pandas as pd), so the name does not resolve and the call ends there with
\* NameError, whatever the state of the file.
ReduceQueryWrapper(out) ==
    IF q_always
    THEN /\ q_result' = out
         /\ q_invs_today' = q_invs_today + 1
         /\ UNCHANGED <<q_file, q_df, q_df_date>>
    ELSE IF ~NameResolves("datetime", ReduceWrapScope)
    THEN /\ q_result' = Raised("NameError", "wrapper")
         /\ UNCHANGED <<q_file, q_df, q_df_date, q_invs_today>>
    ELSE ReduceQueryBody(out)

\* One call of wrapper, with some arguments and a target that, if invoked,
\* does out.  q_first and q_seen record the call for the claims.
ReduceQueryCall ==
    /\ q_calls < MaxQueryCalls
    /\ q_calls' = q_calls + 1
    /\ q_calls_today' = q_calls_today + 1
    /\ q_first_stale' =
          IF q_calls_today = 0
          THEN FileDate(q_file) # q_today /\ q_df_date # q_today
          ELSE q_first_stale
    /\ \E out \in QueryOutcomes, arg \in QueryArgs :
          /\ ReduceQueryWrapper(out)
          /\ q_first' = IF q_calls_today = 0
                        THEN [arg |-> arg, out |-> out] ELSE q_first
          /\ q_seen' =
                [arg |-> arg, out |-> out,
                 file_fresh |-> FileDate(q_file) = q_today,
                 mem_fresh |-> q_df_date = q_today,
                 invoked |-> q_invs_today' # q_invs_today, day |-> q_today,
                 file |-> q_file, df |-> q_df, df_date |-> q_df_date]
    /\ UNCHANGED <<q_always, q_today>>

--------------------------------------------------------------------------
(* Specifications: one decorator at work, the others idle                  *)

RetryIdle ==
    /\ r_n = 1
    /\ r_exception = "Exception"
    /\ r_pc = "idle"
    /\ r_i = 0
    /\ r_invs = 0
    /\ r_hist = <<>>
    /\ r_result = NoResult
    /\ r_calls = 0
    /\ r_prev = NoResult

LimitIdle ==
    /\ l_n = Unset
    /\ l_state = "undecorated"
    /\ l_decorated = NoResult
    /\ l_times_left = Unset
    /\ l_pc = [t \in Threads |-> "idle"]
    /\ l_invoked = 0
    /\ l_log = <<>>
    /\ l_overlap = FALSE

TimeoutIdle ==
    /\ s_seconds = [w \in Wrappers |-> 1]
    /\ s_alarm = 0
    /\ s_handler = None
    /\ s_stack = <<>>
    /\ s_last = NoCall
    /\ s_calls = 0
    /\ s_clock = 0
    /\ s_stray = FALSE

PassExceptIdle ==
    /\ p_print = FALSE
    /\ p_log = <<>>

TimingIdle ==
    /\ g_variant = "timing"
    /\ g_cfg = [times |-> 1, split_before |-> FALSE, split_after |-> FALSE,
                return_time |-> FALSE, activate |-> TRUE, factor |-> 1000]
    /\ g_time_run = [f \in Funcs |-> 0]
    /\ g_self_time_run = 0
    /\ g_pc = "idle"
    /\ g_func = None
    /\ g_k = 0
    /\ g_invs = 0
    /\ g_ret = Unbound
    /\ g_raised = FALSE
    /\ g_out = <<>>
    /\ g_result = NoResult
    /\ g_ms = 0
    /\ g_calls = 0

ReduceQueryIdle ==
    /\ q_always = FALSE
    /\ q_today = 1
    /\ q_file = NoFile
    /\ q_df = None
    /\ q_df_date = NoDate
    /\ q_result = NoResult
    /\ q_calls = 0
    /\ q_calls_today = 0
    /\ q_invs_today = 0
    /\ q_first_stale = FALSE
    /\ q_first = NoFirst
    /\ q_seen = NoSeen

InitRetry ==
    /\ RetryInit
    /\ LimitIdle /\ TimeoutIdle /\ PassExceptIdle
    /\ TimingIdle /\ ReduceQueryIdle

NextRetry ==
    \/ RetryCall /\ UNCHANGED exceptRetry
    \/ RetryAttempt /\ UNCHANGED exceptRetry
    \/ RetryExhausted /\ UNCHANGED exceptRetry

SpecRetry == InitRetry /\ [][NextRetry]_vars

InitLimit ==
    /\ LimitInit
    /\ RetryIdle /\ TimeoutIdle /\ PassExceptIdle
    /\ TimingIdle /\ ReduceQueryIdle

NextLimit ==
    \/ LimitDecorate /\ UNCHANGED exceptLimit
    \/ LimitSerialTest /\ UNCHANGED exceptLimit
    \/ LimitSerialDecrement /\ UNCHANGED exceptLimit
    \/ LimitSerialInvoke /\ UNCHANGED exceptLimit

SpecLimit == InitLimit /\ [][NextLimit]_vars

\* Two callers of one wrapper with no lock: the statements of wrapper
\* interleave freely.
NextLimitConcurrent ==
    \/ LimitDecorate /\ UNCHANGED exceptLimit
    \/ (\E t \in Threads : LimitTest(t))
           /\ UNCHANGED exceptLimit
    \/ (\E t \in Threads : LimitDecrement(t))
           /\ UNCHANGED exceptLimit
    \/ (\E t \in Threads : LimitInvoke(t))
           /\ UNCHANGED exceptLimit

SpecLimitConcurrent == InitLimit /\ [][NextLimitConcurrent]_vars

InitTimeout ==
    /\ TimeoutInit
    /\ RetryIdle /\ LimitIdle /\ PassExceptIdle
    /\ TimingIdle /\ ReduceQueryIdle

NextTimeout ==
    \/ (\E w \in Wrappers : TimeoutCall(w)) /\ UNCHANGED exceptTimeout
    \/ TimeoutTargetReturns /\ UNCHANGED exceptTimeout
    \/ TimeoutTargetRaises /\ UNCHANGED exceptTimeout
    \/ Tick /\ UNCHANGED exceptTimeout
    \/ TickAlarm /\ UNCHANGED exceptTimeout

SpecTimeout == InitTimeout /\ [][NextTimeout]_vars

InitSuppress ==
    /\ PassExceptInit
    /\ RetryIdle /\ LimitIdle /\ TimeoutIdle
    /\ TimingIdle /\ ReduceQueryIdle

NextSuppress == PassExceptCall /\ UNCHANGED exceptSuppress

SpecSuppress == InitSuppress /\ [][NextSuppress]_vars

InitTiming ==
    /\ TimingInit
    /\ RetryIdle /\ LimitIdle /\ TimeoutIdle
    /\ PassExceptIdle /\ ReduceQueryIdle

NextTiming ==
    \/ (\E f \in Funcs : TimingCallInactive(f))
           /\ UNCHANGED exceptTiming
    \/ (\E f \in Funcs : TimingCall(f))
           /\ UNCHANGED exceptTiming
    \/ TimingInvoke /\ UNCHANGED exceptTiming
    \/ TimingReport /\ UNCHANGED exceptTiming
    \/ TimingClassReport /\ UNCHANGED exceptTiming

SpecTiming == InitTiming /\ [][NextTiming]_vars

InitQuery ==
    /\ ReduceQueryInit
    /\ RetryIdle /\ LimitIdle /\ TimeoutIdle /\ PassExceptIdle /\ TimingIdle

NextQuery ==
    \/ ReduceQueryCall
           /\ UNCHANGED exceptQuery
    \/ DayPasses
           /\ UNCHANGED exceptQuery

SpecQuery == InitQuery /\ [][NextQuery]_vars

--------------------------------------------------------------------------
(* Claims about retry                                                      *)

\* The invocations of the current outer call that raised a matching exception.
RetryMatchingRaises ==
    {j \in 1..Len(r_hist) :
        r_hist[j].kind = "raise" /\ IsSubclass(r_hist[j].cls, r_exception)}

\* The invocations of the current outer call that raised any other exception.
RetryOtherRaises ==
    {j \in 1..Len(r_hist) :
        r_hist[j].kind = "raise" /\ ~IsSubclass(r_hist[j].cls, r_exception)}

\* C1: with n >= 1 and a target that raises a matching exception on its first
\* k invocations and then succeeds, a finished outer call has returned the
\* target's value after exactly k+1 invocations when k < n, and has failed
\* with the retries-exhausted error after exactly n invocations when k >= n.
C1_RetryCounts ==
    (r_pc = "done" /\ r_n >= 1 /\ RetryOtherRaises = {}) =>
        LET k == Cardinality(RetryMatchingRaises)
        IN  IF k < r_n
            THEN /\ r_invs = k + 1
                 /\ Len(r_hist) = k + 1
                 /\ r_hist[k + 1].kind = "return"
                 /\ r_result = Returned(r_hist[k + 1].val)
            ELSE /\ r_invs = r_n
                 /\ r_result = Raised("ValueError", "retry")

\* C1 witness: retry(3) whose target failed twice and then succeeded.
C1_Witness ==
    /\ r_pc = "done"
    /\ r_n = 3
    /\ Cardinality(RetryMatchingRaises) = 2
    /\ r_invs = 3
    /\ r_result.kind = "return"

\* C10: an invocation that raises a non-matching exception ends the outer
\* call at once: it is the last invocation of that call, and the caller gets
\* the target's own exception, not the retries-exhausted error.
C10_NonMatchingPropagates ==
    \A j \in RetryOtherRaises :
        /\ j = Len(r_hist)
        /\ r_invs = j
        /\ r_pc = "done"
        /\ r_result = Raised(r_hist[j].cls, "target")

\* C10 witness: retry(n, ValueError) whose target first raised ValueError
\* (retried) and then KeyError (propagated) with budget left.
C10_Witness ==
    /\ r_pc = "done"
    /\ r_exception = "ValueError"
    /\ Len(r_hist) = 2
    /\ r_hist[1].cls = "ValueError"
    /\ r_hist[2].cls = "KeyError"
    /\ r_n = 3
    /\ r_result = Raised("KeyError", "target")

\* In every outer call the target has been invoked at most n times, every
\* matching failure so far used one attempt of this call's own budget, and an
\* outer call that ran out of budget made exactly n invocations.
C11_AtMostN ==
    /\ r_invs <= RangeLen(r_n)
    /\ r_pc = "loop" => r_invs = r_i
    /\ (r_pc = "done" /\ r_result = Raised("ValueError", "retry")) =>
           r_invs = RangeLen(r_n)

\* A new outer call starts with no attempt used, whatever the call before
\* it gave.
C11_FreshBudget == r_calls' = r_calls + 1 => (r_i' = 0 /\ r_invs' = 0)

\* C11: each outer call of a retry(n) wrapper invokes the target at most n
\* times and starts with the full budget of n attempts, whatever the earlier
\* outer calls did; no attempt count is carried from one call to the next.
C11_BudgetPerCall == [](C11_AtMostN) /\ [][C11_FreshBudget]_vars

\* C11 witness: after an outer call that exhausted retry(3), the next outer
\* call failed twice and succeeded at its third attempt.
C11_Witness ==
    /\ r_calls = 2
    /\ r_n = 3
    /\ r_prev = Raised("ValueError", "retry")
    /\ r_pc = "done"
    /\ r_invs = 3
    /\ r_result.kind = "return"

--------------------------------------------------------------------------
(* Claims about limit_run                                                  *)

Min(a, b) == IF a < b THEN a ELSE b

\* In every state of a limit_run(n) wrapper with n >= 1, called serially:
\* the first n finished calls invoked the target, every later one got the
\* quota-exceeded error, and the target ran for no refused call.
C2_FirstNThenRefused ==
    (l_n.set /\ l_n.val >= 1) =>
        /\ \A j \in 1..Len(l_log) :
              IF j <= l_n.val
              THEN l_log[j] \in LimitTargetOutcomes
              ELSE l_log[j] = QuotaExceeded
        /\ l_invoked = Min(Len(l_log), l_n.val)

\* The remaining count, once set, never increases, and stays at zero once
\* it is zero.
C2_NeverReplenishes ==
    l_times_left.set =>
        /\ l_times_left'.set
        /\ l_times_left'.val <= l_times_left.val
        /\ (l_times_left.val = 0 => l_times_left'.val = 0)

\* C2: for limit_run(n) with an integer n >= 1 and calls made one after
\* another, the first n calls invoke the target, the (n+1)-th and every later
\* call fail with the quota-exceeded error without invoking it, and the
\* remaining count never increases.
C2_RunQuota == [](C2_FirstNThenRefused) /\ [][C2_NeverReplenishes]_vars

\* C2 witness: limit_run(2) after four calls, the last two refused.
C2_Witness ==
    /\ l_n = IntVal(2)
    /\ Len(l_log) = 4
    /\ l_log[3] = QuotaExceeded
    /\ l_log[4] = QuotaExceeded
    /\ l_invoked = 2
    /\ l_times_left = IntVal(0)

\* C9 as stated: limit_run(n) with n <= 0 is rejected with an error when the
\* decorator is applied.
C9_RejectedAtDecoration ==
    (l_state = "decorated" /\ l_n.set /\ l_n.val <= 0) => l_decorated.kind = "raise"

\* C9 amended: limit_run(n) with an integer n <= 0 is accepted when the
\* decorator is applied (the wrapper is returned, no error); the bound shows
\* only at call time, where every call fails with the quota-exceeded error
\* and the target is never invoked.
C9_RejectedAtCallTime ==
    (l_n.set /\ l_n.val <= 0) =>
        /\ l_state = "decorated" => l_decorated = Returned("wrapper")
        /\ \A j \in 1..Len(l_log) : l_log[j] = QuotaExceeded
        /\ l_invoked = 0
        /\ \A t \in Threads : l_pc[t] = "idle"

\* C9 witness: limit_run(-1), decorated without error, refused its first calls.
C9_Witness ==
    /\ l_n = IntVal(-1)
    /\ l_decorated = Returned("wrapper")
    /\ Len(l_log) = 2
    /\ l_log[1] = QuotaExceeded
    /\ l_invoked = 0

\* The finished calls that were accepted (not refused), and the callers that
\* have passed the decrement and not yet invoked the target.
LimitAccepted == {j \in 1..Len(l_log) : l_log[j] # QuotaExceeded}

LimitAboutToInvoke == {t \in Threads : l_pc[t] = "invoke"}

\* C16, the state part, for calls made one after another.  With n >= 1: the
\* remaining count is n less the accepted calls, those whose target raised
\* and the one about to invoke the target included; once n calls have been
\* accepted the count is 0 and every call finished after them was refused.
\* With n unset: every call invoked the target and no count is held.
C16_QuotaConsumed ==
    l_state = "decorated" =>
        IF l_n.set
        THEN l_n.val >= 1 =>
               /\ l_times_left.val =
                      l_n.val - Cardinality(LimitAccepted)
                              - Cardinality(LimitAboutToInvoke)
               /\ Cardinality(LimitAccepted) <= l_n.val
               /\ \A j \in 1..Len(l_log) :
                      Cardinality({i \in LimitAccepted : i < j}) = l_n.val =>
                          l_log[j] = QuotaExceeded
        ELSE /\ l_times_left = Unset
             /\ l_invoked = Len(l_log)
             /\ \A j \in 1..Len(l_log) : l_log[j] \in LimitTargetOutcomes

\* C16, the step part: the step that invokes the target leaves the count as
\* the decrement before it left it, whether the target returns or raises.
C16_InvokeKeepsCount ==
    l_invoked' = l_invoked + 1 => l_times_left' = l_times_left

\* C16: an accepted call decrements the remaining count before the target is
\* invoked, so a target that raises still consumes one unit; after n accepted
\* calls every later call is refused; with n unset every call invokes the
\* target and no count is kept or changed.
C16_DecrementBeforeInvoke ==
    [](C16_QuotaConsumed) /\ [][C16_InvokeKeepsCount]_vars

\* C16 witness: limit_run(2), two calls whose target raised, then a refusal.
C16_Witness ==
    /\ l_n = IntVal(2)
    /\ l_log = <<Raised("ValueError", "target"), Raised("ValueError", "target"),
                 QuotaExceeded>>
    /\ l_times_left = IntVal(0)
    /\ l_invoked = 2

\* The quota is overrun: more invocations than n, or a count below zero.
LimitOverrun == l_invoked > l_n.val \/ l_times_left.val < 0

\* C17: with two callers and no lock, for limit_run(n) with n >= 1, a state
\* in which the target has been invoked more than n times or the remaining
\* count is below zero is reached only after a call began while another was
\* between its test and the end of its invocation; as long as no calls have
\* overlapped, no such state is reached.  (That such a state is reached at
\* all is C17_Witness.)
C17_OverrunOnlyByOverlap ==
    (l_state = "decorated" /\ l_n.set /\ l_n.val >= 1) =>
        /\ LimitOverrun => l_overlap
        /\ l_invoked <= l_n.val + Cardinality(Threads) - 1
        /\ l_times_left.val >= 1 - Cardinality(Threads)

\* C17 witness: limit_run(1); both callers passed the test `times_left > 0`
\* before either decremented, both invoked the target, and the count is -1.
C17_Witness ==
    /\ l_n = IntVal(1)
    /\ l_overlap
    /\ l_invoked = 2
    /\ l_times_left = IntVal(-1)
    /\ Len(l_log) = 2
    /\ \A j \in 1..2 : l_log[j] # QuotaExceeded

--------------------------------------------------------------------------
(* Claims about timeout                                                    *)

\* No alarm is armed while no wrapper call is outstanding, no alarm ever went
\* off outside a wrapper call, and a call that ended strictly before its
\* deadline gave its caller what the target gave (its value or its own
\* exception).
C4_NothingArmedAfterExit ==
    /\ s_stack = <<>> => s_alarm = 0
    /\ ~s_stray
    /\ (s_last # NoCall /\ s_last.elapsed < s_seconds[s_last.w]) =>
           s_last.result \in TimeoutTargetOutcomes

\* Every step that ends a wrapper call leaves no alarm armed.
C4_ExitDisarms == Len(s_stack') < Len(s_stack) => s_alarm' = 0

\* C4: after a call of a timeout wrapper ends, by the target returning, the
\* target raising or the timeout firing, no alarm is left armed, so none
\* fires during later, unrelated code; and a target that finishes strictly
\* before the deadline has its result returned normally.
C4_TimeoutDisarmed == [](C4_NothingArmedAfterExit) /\ [][C4_ExitDisarms]_vars

\* C4 witness: a timeout(2) call whose target raised after one second, with
\* the alarm still pending, followed by two quiet seconds.
C4_Witness ==
    /\ s_last.w \in Wrappers
    /\ s_seconds[s_last.w] = 2
    /\ s_last.elapsed = 1
    /\ s_last.result = Raised("ValueError", "target")
    /\ s_last.depth = 1
    /\ s_stack = <<>>
    /\ s_alarm = 0
    /\ s_clock = 3
    /\ ~s_stray

\* C5 as stated: nested timeouts are serialized or rejected, so the running
\* call is always within its own deadline (the outer deadline still holds once
\* the inner call has ended), and a timeout error always carries the message
\* of the wrapper whose call it ends, at that wrapper's deadline.
C5_NestedDeadlinesEnforced ==
    /\ (s_stack # <<>> /\ s_seconds[Top(s_stack).w] > 0) =>
           Top(s_stack).elapsed < s_seconds[Top(s_stack).w]
    /\ (s_last # NoCall /\ s_last.result.origin \in Wrappers) =>
           /\ s_last.result.origin = s_last.w
           /\ s_last.elapsed = s_seconds[s_last.w]

--------------------------------------------------------------------------
(* Claims about pass_except                                                *)

\* C6 as stated: whenever the target raised, whatever the exception, the
\* call returned None and nothing propagated.
C6_AnyExceptionSuppressed ==
    \A j \in 1..Len(p_log) :
        p_log[j].out.kind = "raise" => p_log[j].result = Returned(None)

\* C6 amended: whenever the target raised an instance of Exception, with
\* print_exception set or unset, the call returned None and the exception did
\* not propagate; an exception that is not an instance of Exception (such as
\* KeyboardInterrupt) propagated to the caller unchanged.
C6_ExceptionSuppressed ==
    \A j \in 1..Len(p_log) :
        p_log[j].out.kind = "raise" =>
            IF IsSubclass(p_log[j].out.cls, "Exception")
            THEN p_log[j].result = Returned(None)
            ELSE p_log[j].result = p_log[j].out

\* C6 witness: with print_exception set, a target that raised KeyError gave
\* None and a traceback, and one that raised KeyboardInterrupt propagated.
C6_Witness ==
    /\ p_print
    /\ Len(p_log) = 2
    /\ p_log[1].out = Raised("KeyError", "target")
    /\ p_log[1].result = Returned(None)
    /\ p_log[1].traced
    /\ p_log[2].out = Raised("KeyboardInterrupt", "target")
    /\ p_log[2].result.kind = "raise"

--------------------------------------------------------------------------
(* Claims about timing and Timing                                          *)

\* C7 as stated: for every configuration and both variants, a call of the
\* wrapped callable whose target did not raise does not raise.
C7_NeverRaises ==
    (g_pc = "done" /\ ~g_raised) => g_result.kind # "raise"

\* C8 as stated: for times = N >= 1 and both variants, a call of the wrapper
\* whose target did not raise has invoked the target exactly N times and
\* returns the scaled duration when return_time is set and the value of the
\* last invocation otherwise.
C8_TimesAndLastValue ==
    (g_pc = "done" /\ g_cfg.activate /\ g_cfg.times >= 1 /\ ~g_raised) =>
        /\ g_invs = g_cfg.times
        /\ IF g_cfg.return_time
           THEN g_result = Measured
           ELSE g_result = Returned(g_ret) /\ g_ret \in TargetValues

\* The separators among the printed lines, and those printed by calls of f.
Separators(out) ==
    LET IsSep(x) == x.kind = "sep"
    IN  SelectSeq(out, IsSep)

SeparatorsOf(out, f) ==
    LET IsSepOf(x) == x.kind = "sep" /\ x.f = f
    IN  SelectSeq(out, IsSepOf)

\* The separators of seq carry 0, 1, 2, ... in the order printed, and the
\* counter stands at their number.
NumberedUpTo(seq, counter) ==
    /\ Len(seq) = counter
    /\ \A i \in 1..Len(seq) : seq[i].n = i - 1

\* C15, the state part: a counter stands at the number of separators printed
\* under it, which carry 0, 1, 2, ... (so it starts at 0 and grows by one per
\* separator).  With timing(...) every wrapped function has a counter of its
\* own; with one Timing instance the separators of all its functions are
\* numbered by the one counter of the instance.
C15_CounterNumbersSeparators ==
    IF g_variant = "timing"
    THEN /\ \A f \in Funcs : NumberedUpTo(SeparatorsOf(g_out, f), g_time_run[f])
         /\ g_self_time_run = 0
    ELSE /\ NumberedUpTo(Separators(g_out), g_self_time_run)
         /\ \A f \in Funcs : g_time_run[f] = 0

\* C15, the step part: no counter decreases, and a step prints at most one
\* separator for split_before and one for split_after.
C15_CounterStep ==
    /\ g_self_time_run' >= g_self_time_run
    /\ \A f \in Funcs : g_time_run'[f] >= g_time_run[f]
    /\ Len(Separators(g_out')) - Len(Separators(g_out)) <=
           (IF g_cfg.split_before THEN 1 ELSE 0) + (IF g_cfg.split_after THEN 1 ELSE 0)

--------------------------------------------------------------------------
(* Claims about reduce_query                                               *)

\* C3 as stated: with always_query unset, on a day whose first call found
\* both tiers stale (the file's date and the in-memory date older than the
\* day, or absent), the calls of that day have invoked the target exactly
\* once in total, and the file has been overwritten with the new result on
\* that day.
C3_OncePerDay ==
    (~q_always /\ q_calls_today >= 1 /\ q_first_stale /\ q_result.origin # "target") =>
        /\ q_invs_today = 1
        /\ q_df \in DataFrames
        /\ q_df_date = q_today
        /\ q_file = FileOf(ToCsv(q_df), q_today)

\* C12 as stated: in the last call with always_query unset, the target was
\* invoked only if the call found both tiers stale (in-memory date not today
\* and file date not today or file absent); and if the call found either
\* tier fresh, it returned a result and did not invoke the target.
C12_InvokedOnlyWhenBothStale ==
    (~q_always /\ q_calls >= 1) =>
        /\ q_seen.invoked => (~q_seen.file_fresh /\ ~q_seen.mem_fresh)
        /\ (q_seen.file_fresh \/ q_seen.mem_fresh) =>
               (~q_seen.invoked /\ q_result.kind = "return")

\* C13 as stated: when the last call (always_query unset) found exactly one
\* tier fresh, it did not invoke the target; if memory was the fresh tier,
\* the in-memory result was written to the file and returned; if the file was
\* the fresh tier, its content was loaded into memory, the in-memory date set
\* to the file's date, and that content returned.  Afterwards both tiers are
\* dated the day of the call and hold the value of the tier that was fresh.
C13_ReconcilesWithoutQuery ==
    (~q_always /\ q_calls >= 1 /\ q_seen.file_fresh # q_seen.mem_fresh) =>
        /\ ~q_seen.invoked
        /\ q_df_date = q_seen.day
        /\ FileDate(q_file) = q_seen.day
        /\ IF q_seen.mem_fresh
           THEN /\ q_df = q_seen.df
                /\ q_file = FileOf(ToCsv(q_seen.df), q_seen.day)
                /\ q_result = Returned(q_seen.df)
           ELSE /\ q_file = q_seen.file
                /\ q_df = ReadCsv(q_seen.file.content)
                /\ q_df_date = FileDate(q_seen.file)
                /\ q_result = Returned(ReadCsv(q_seen.file.content))

\* C14: with always_query set, every call invokes the target exactly once,
\* ends as the target ended (returns what it returned), whatever the state
\* of the two tiers, and leaves the in-memory result, the in-memory date and
\* the file unchanged.
C14_BypassStep ==
    (q_always /\ q_calls' = q_calls + 1) =>
        /\ q_invs_today' = q_invs_today + 1
        /\ q_seen'.invoked
        /\ q_result' = q_seen'.out
        /\ UNCHANGED <<q_file, q_df, q_df_date>>

C14_AlwaysQueryBypasses == [][C14_BypassStep]_vars

\* Two calls on a day when the file is dated today: both invoked the target,
\* the second returned its frame, and nothing was cached.
C14_Witness ==
    /\ q_always
    /\ q_calls_today = 2
    /\ q_invs_today = 2
    /\ q_seen.file_fresh
    /\ q_seen.invoked
    /\ q_result = Returned("df_typed")
    /\ q_df = None
    /\ q_df_date = NoDate

\* C18 as stated: once a result is cached for today (the file or the memory
\* was dated today when the call began, or the day's first call found both
\* tiers stale and its target returned), a later call of the same day whose
\* arguments differ from the first call's does not invoke the target and
\* returns the cached result: the frame held in memory, which is the first
\* call's result when that call queried.
C18_CacheIgnoresArguments ==
    (/\ ~q_always
     /\ q_calls_today >= 2
     /\ q_seen.arg # q_first.arg
     /\ \/ q_seen.file_fresh
        \/ q_seen.mem_fresh
        \/ q_first_stale /\ q_first.out.kind = "return") =>
        /\ ~q_seen.invoked
        /\ q_result.kind = "return"
        /\ q_result.val = q_df
        /\ (q_first_stale /\ q_first.out.kind = "return") => q_result = q_first.out

\* C19 as stated: when the last call (always_query unset) found both tiers
\* stale, it invoked the target; if the target raised, that exception is the
\* call's outcome and the in-memory result, the in-memory date and the file
\* are as they were before the call.  Whenever a call that queried has set
\* the in-memory date to its day, the file holds the result written that day.
C19_TargetFailureLeavesCacheStale ==
    (~q_always /\ q_calls >= 1) =>
        /\ (~q_seen.file_fresh /\ ~q_seen.mem_fresh) => q_seen.invoked
        /\ (~q_seen.file_fresh /\ ~q_seen.mem_fresh /\ q_seen.out.kind = "raise") =>
               /\ q_result = q_seen.out
               /\ q_df = q_seen.df
               /\ q_df_date = q_seen.df_date
               /\ q_file = q_seen.file
        /\ (q_seen.invoked /\ q_df_date = q_seen.day) =>
               q_file = FileOf(ToCsv(q_df), q_seen.day)

==========================================================================
